---- MODULE Spec2Model ----
(***************************************************************************)
(* SpotiFLAC, Billboard page: the resumable matching engine               *)
(* (matchWithSpotify and its handlers) and the chart cache                 *)
(* (loadCachedData / saveCachedData over localStorage).                    *)
(*                                                                         *)
(* The component is a React function component.  Every handler and every   *)
(* continuation of an async function runs to its next await without        *)
(* interruption; the state updates it queues are rendered together right   *)
(* after it, and the effects of that render run with it.  One action of    *)
(* this module is one such piece of code together with the render and the  *)
(* effects it triggers.  A handler or an async function sees the state of  *)
(* the render that created it (its closure), not the current state.        *)
(*                                                                         *)
(* Indices are 1-based here: index i of the source is i + 1 in the model.  *)
(*                                                                         *)
(* The behaviours are explored in three families (variable scope):         *)
(*   "matching"  one date, no clock: fetch, resume, reset and stop in any  *)
(*               order, a fetch also while a run is active;                *)
(*   "cache"     the date changes and days pass at any moment; a fetch is  *)
(*               called only while no run is active and none is pending;   *)
(*   "engine"    matchWithSpotify is called directly on a displayed chart  *)
(*               with any set of matched indices and any start index.      *)
(***************************************************************************)
EXTENDS Integers, Sequences, FiniteSets, TLC

\* ---------------------------------------------------------------- bounds
\* entries of one chart
NumEntries == 2
\* matching runs started in one behaviour
MaxRuns == 2
\* matching runs started in one behaviour in which dates change and days pass
MaxCacheRuns == 1
\* days the clock may reach
MaxDays == 8

\* ------------------------------------------------------ program constants
MAX_RETRIES == 3
BASE_DELAY == 1500
RATE_LIMIT_DELAY == 10000
CACHE_EXPIRY_DAYS == 7

DayMs == 24 * 60 * 60 * 1000

\* the chart dates the parent component can select
Dates == {"2024-05-04", "2024-05-11"}

\* identifiers the search service can return ("" is no identifier)
Ids == {"abc123", "xyz789"}

VARIABLES
    billboardDate,      \* prop: the selected date
    tracks,             \* state: track records, aligned with billboardEntries
    billboardEntries,   \* state: entries of the displayed chart
    matchedIndices,     \* state: set of matched indices
    matchedCount,       \* state: matched count
    chartDate,          \* state: reported date of the displayed chart
    isMatchingSpotify,  \* state: the `running` flag
    stopMatchingRef,    \* ref: the cooperative cancellation flag
    localStorage,       \* date -> <<>> (no item) or <<record>>
    now,                \* Date.now(), in ms
    fetchClosure,       \* the render captured by window.__billboardFetch
    fetches,            \* handleFetchChart calls awaiting FetchBillboardHot100
    runs,               \* matchWithSpotify calls, in the order they started
    scope,              \* the family of scenarios this behaviour belongs to
    lastLoad,           \* history: the cache read of the step just taken
    call                \* backend: <<>> or <<the call of a Go function>>

vars == <<billboardDate, tracks, billboardEntries, matchedIndices, matchedCount,
          chartDate, isMatchingSpotify, stopMatchingRef, localStorage, now,
          fetchClosure, fetches, runs, scope, lastLoad, call>>

\* --------------------------------------------------------------- strings
\* An error text is a sequence of characters, so that toLowerCase and
\* includes are computed and not assumed.
UpperCase == <<"A", "E", "M", "O", "Q", "R", "T", "U", "Y">>
LowerCase == <<"a", "e", "m", "o", "q", "r", "t", "u", "y">>

toLowerCase(s) ==
    [k \in 1..Len(s) |->
        IF \E j \in 1..Len(UpperCase) : UpperCase[j] = s[k]
        THEN LowerCase[CHOOSE j \in 1..Len(UpperCase) : UpperCase[j] = s[k]]
        ELSE s[k]]

includes(s, sub) ==
    \E k \in 0..(Len(s) - Len(sub)) : SubSeq(s, k + 1, k + Len(sub)) = sub

\* the error texts the search call can throw
ErrorTexts ==
    { <<"4", "2", "9">>,
      <<"R", "A", "T", "E">>,
      <<"T", "o", "o", " ", "M", "a", "n", "y">>,
      <<"Q", "u", "o", "t", "a">>,
      <<"t", "o", "o", "m", "a", "n", "y">>,
      <<"t", "i", "m", "e", "o", "u", "t">> }

\* mutant: the error text is compared as it is, without toLowerCase
isRateLimited_CaseSensitive(error) ==
    \/ includes(error, <<"4", "2", "9">>)
    \/ includes(error, <<"r", "a", "t", "e">>)
    \/ includes(error, <<"t", "o", "o", " ", "m", "a", "n", "y">>)
    \/ includes(error, <<"q", "u", "o", "t", "a">>)

isRateLimited(error) ==
    LET errorMsg == toLowerCase(error)
    IN  \/ includes(errorMsg, <<"4", "2", "9">>)
        \/ includes(errorMsg, <<"r", "a", "t", "e">>)
        \/ includes(errorMsg, <<"t", "o", "o", " ", "m", "a", "n", "y">>)
        \/ includes(errorMsg, <<"q", "u", "o", "t", "a">>)

\* ----------------------------------------------------------------- data
\* the chart FetchBillboardHot100 returns for a date
ChartEntries(date) ==
    [k \in 1..NumEntries |-> [rank |-> k, title |-> <<date, k>>]]

\* entries.map(entry => ({name: entry.title, ..., isrc: ""}))
InitialTracks(entries) ==
    [k \in 1..Len(entries) |->
        [name |-> entries[k].title, spotify_id |-> "", isrc |-> ""]]

\* the candidate lists SearchSpotify can return
SearchResults ==
    { <<>>,
      <<[id |-> ""], [id |-> "xyz789"]>>,
      <<[id |-> "abc123"], [id |-> "xyz789"]>> }

\* the values a component render closes over
\* (the five values saveToCache depends on)
Render(date, cd, entries, trks, mi) ==
    [billboardDate |-> date, chartDate |-> cd, billboardEntries |-> entries,
     tracks |-> trks, matchedIndices |-> mi]

CurrentRender ==
    Render(billboardDate, chartDate, billboardEntries, tracks, matchedIndices)

\* ---------------------------------------------------------------- cache
expiryTime == CACHE_EXPIRY_DAYS * 24 * 60 * 60 * 1000

\* mutant: a record of exactly seven days is expired
IsExpired_AtSevenDays(data, t) == t - data.timestamp >= expiryTime

\* line 61
IsExpired(data, t) == t - data.timestamp > expiryTime

\* loadCachedData: <<>> is null
loadCachedData(ls, date, t) ==
    IF ls[date] = <<>> THEN <<>>
    ELSE IF IsExpired(ls[date][1], t) THEN <<>>
    ELSE ls[date]

\* the localStorage loadCachedData leaves behind
StorageAfterLoad(ls, date, t) ==
    IF ls[date] # <<>> /\ IsExpired(ls[date][1], t)
    THEN [ls EXCEPT ![date] = <<>>]
    ELSE ls

saveCachedData(ls, data) == [ls EXCEPT ![data.date] = <<data>>]

\* saveToCache of the render r
saveToCache(r, ls, t) ==
    IF r.billboardDate = "" \/ Len(r.tracks) = 0 THEN ls
    ELSE saveCachedData(ls,
            [date |-> r.billboardDate, chartDate |-> r.chartDate,
             entries |-> r.billboardEntries, tracks |-> r.tracks,
             matchedIndices |-> r.matchedIndices, timestamp |-> t])

\* the effect "save to cache when tracks change", run after the render r
SaveOnChange(r, ls, t) ==
    IF Len(r.tracks) > 0 /\ r.matchedIndices # {}
    THEN saveToCache(r, ls, t)
    ELSE ls

\* --------------------------------------------------------------- engine
\* A run is one call of matchWithSpotify.  pc is the await it is suspended
\* at: "search" (SearchSpotify), "retryWait" (delay after a failed attempt),
\* "gapWait" (delay(BASE_DELAY) between entries), or "done" (returned).
\* entries .. retryCount are the locals of the call, closure is the render
\* whose matchWithSpotify was called, wait is the delay being awaited in ms.
\* kind, searched, stopReq, waitsAfterStop and stopView record history: the
\* handler that started the run, whether it has called SearchSpotify,
\* whether handleStopMatching was called while it was active, the delays it
\* began after that, and the state published when that happened.
NewRun(kind, entries, currentTracks, initialMatchedIndices, initialMatchedCount, closure) ==
    [kind |-> kind, pc |-> "start", entries |-> entries,
     updatedTracks |-> currentTracks,
     newMatchedIndices |-> initialMatchedIndices,
     matched |-> initialMatchedCount,
     i |-> 0, retryCount |-> 0, wait |-> 0,
     closure |-> closure,
     searched |-> FALSE, stopReq |-> FALSE, waitsAfterStop |-> 0, stopView |-> <<>>]

Active(r) == r.pc # "done"

\* mutant: no index is skipped
AlreadyMatched_Never(r, i) == FALSE

\* line 252: skip already matched tracks
AlreadyMatched(r, i) == i \in r.newMatchedIndices

\* mutant: one attempt more
WhileCondition_OneMore(r, stop) == r.retryCount <= MAX_RETRIES /\ ~stop

\* line 263: the condition of the retry loop
WhileCondition(r, stop) == r.retryCount < MAX_RETRIES /\ ~stop

\* line 323: the condition of the delay between entries
GapCondition(r, stop) == r.i < Len(r.entries) /\ ~stop

\* mutant: any candidate with an identifier makes a match
HasMatch_AnyCandidate(results) ==
    \E j \in 1..Len(results) : results[j].id # ""

\* lines 271-274: the result has a first candidate with an identifier
HasMatch(results) == Len(results) > 0 /\ results[1].id # ""

\* lines 272, 278, 286: the identifier taken from the result
MatchId(results) == results[1].id

\* lines 308-319: the delay after the retryCount-th failed attempt (0: none)
RetryDelay(error, retryCount) ==
    IF isRateLimited(error) THEN RATE_LIMIT_DELAY * retryCount
    ELSE IF retryCount < MAX_RETRIES THEN BASE_DELAY * retryCount
    ELSE 0

\* mutant: the loop does not look at the matched indices
ForLoop_NoSkip(r, i, stop) ==
    IF i > Len(r.entries) \/ stop THEN [r EXCEPT !.pc = "done", !.i = i]
    ELSE [r EXCEPT !.pc = "search", !.i = i, !.retryCount = 0]

\* lines 244-261: the for loop from its test of index i to the next await
RECURSIVE ForLoop(_, _, _)
ForLoop(r, i, stop) ==
    IF i > Len(r.entries) THEN [r EXCEPT !.pc = "done", !.i = i]
    ELSE IF stop THEN [r EXCEPT !.pc = "done", !.i = i]
    ELSE IF AlreadyMatched(r, i) THEN ForLoop(r, i + 1, stop)
    ELSE [r EXCEPT !.pc = "search", !.i = i, !.retryCount = 0]

\* lines 323-326: after the retry loop
AfterWhile(r, stop) ==
    IF GapCondition(r, stop)
    THEN [r EXCEPT !.pc = "gapWait", !.wait = BASE_DELAY]
    ELSE ForLoop(r, r.i + 1, stop)

\* line 263: the test of the retry loop
WhileLoop(r, stop) ==
    IF WhileCondition(r, stop)
    THEN [r EXCEPT !.pc = "search"]
    ELSE AfterWhile(r, stop)

\* lines 271-301: SearchSpotify returned results
OnSearchResult(r, results, stop) ==
    LET r1 == IF HasMatch(results)
              THEN [r EXCEPT
                      !.updatedTracks[r.i] =
                          [@ EXCEPT !.spotify_id = MatchId(results),
                                    !.isrc = MatchId(results)],
                      !.newMatchedIndices = @ \cup {r.i},
                      !.matched = @ + 1]
              ELSE r
    IN  AfterWhile(r1, stop)

\* lines 303-320: SearchSpotify threw error
OnSearchError(r, error, stop) ==
    LET r1 == [r EXCEPT !.retryCount = @ + 1]
        ms == RetryDelay(error, r1.retryCount)
    IN  IF ms > 0
        THEN [r1 EXCEPT !.pc = "retryWait", !.wait = ms]
        ELSE WhileLoop(r1, stop)

\* the delay after a failed attempt is over
OnRetryWaitDone(r, stop) ==
    WhileLoop([r EXCEPT !.wait = 0], stop)

\* mutant: the loop stays on the entry
OnGapWaitDone_SameEntry(r, stop) == ForLoop([r EXCEPT !.wait = 0], r.i, stop)

\* the delay between two entries is over
OnGapWaitDone(r, stop) == ForLoop([r EXCEPT !.wait = 0], r.i + 1, stop)

\* the render a call closes over once it has returned: none
NoRender == Render("", "", <<>>, <<>>, {})

\* history: a run that calls SearchSpotify is marked, a run that begins a
\* delay after a stop request counts it; the locals of a call that has
\* returned are gone (kind, i, retryCount, matched and the history are kept)
Noted(r, r2) ==
    LET r3 == [r2 EXCEPT !.searched = r.searched \/ r2.pc = "search"]
    IN  IF r3.pc = "done"
        THEN [r3 EXCEPT !.entries = <<>>, !.updatedTracks = <<>>,
                        !.newMatchedIndices = {}, !.wait = 0,
                        !.closure = NoRender, !.stopView = <<>>]
        ELSE IF r.stopReq /\ r3.pc \in {"retryWait", "gapWait"}
        THEN [r3 EXCEPT !.waitsAfterStop = @ + 1]
        ELSE r3

\* mutant: the run counts its matches from 0
StartRun_CountFromZero(kind, entries, currentTracks, startIndex, mi, mc, closure) ==
    ForLoop(NewRun(kind, entries, currentTracks, mi, 0, closure), startIndex, FALSE)

\* lines 225-261: matchWithSpotify up to its first await; line 226 has
\* cleared the cancellation flag
StartRun(kind, entries, currentTracks, startIndex, mi, mc, closure) ==
    ForLoop(NewRun(kind, entries, currentTracks, mi, mc, closure), startIndex, FALSE)

\* lines 328-333: the save a run makes when it returns, with the saveToCache
\* of the render that started it
ExitSave(r2, ls, t) ==
    IF r2.pc = "done" THEN saveToCache(r2.closure, ls, t) ELSE ls

\* lines 225, 328: the running flag after a piece of the run r2
RunningAfter(r2, before) == IF r2.pc = "done" THEN FALSE ELSE before

\* lines 349-355: the first unmatched index (the first index when none)
FirstUnmatched(entries, mi) ==
    IF \E i \in 1..Len(entries) : i \notin mi
    THEN CHOOSE i \in 1..Len(entries) :
            /\ i \notin mi
            /\ \A j \in 1..(i - 1) : j \in mi
    ELSE 1

\* the state published when handleStopMatching is called (history)
StopView == [matchedIndices |-> matchedIndices, matchedCount |-> matchedCount,
             tracks |-> tracks]

\* -------------------------------------------------------------- actions
\* no fetch is pending and no run is active
Idle ==
    /\ fetches = <<>>
    /\ \A k \in 1..Len(runs) : ~Active(runs[k])

\* the bound on the runs of a behaviour: another one may start
MayStart ==
    Len(runs) + Len(fetches) < (IF scope = "cache" THEN MaxCacheRuns ELSE MaxRuns)

\* the track records of a chart whose indices mi are matched
MatchedTracks(entries, mi) ==
    [k \in 1..Len(entries) |->
        [name |-> entries[k].title,
         spotify_id |-> IF k \in mi THEN "abc123" ELSE "",
         isrc |-> IF k \in mi THEN "abc123" ELSE ""]]

\* the page after mounting with a date selected and an empty localStorage
InitPage ==
    /\ scope \in {"matching", "cache"}
    /\ billboardDate = "2024-05-04"
    /\ tracks = <<>>
    /\ billboardEntries = <<>>
    /\ matchedIndices = {}
    /\ matchedCount = 0
    /\ chartDate = ""
    /\ isMatchingSpotify = FALSE
    /\ stopMatchingRef = FALSE
    /\ localStorage = [d \in Dates |-> <<>>]
    /\ now = 0
    /\ fetchClosure = Render("2024-05-04", "", <<>>, <<>>, {})
    /\ fetches = <<>>
    /\ runs = <<>>
    /\ lastLoad = <<>>
    /\ call = <<>>

\* the page showing a chart of which any set of indices is matched, no run
\* active: the inputs of a direct call of matchWithSpotify
InitEngine ==
    /\ scope = "engine"
    /\ billboardDate = "2024-05-04"
    /\ billboardEntries = ChartEntries("2024-05-04")
    /\ matchedIndices \in SUBSET (1..NumEntries)
    /\ tracks = MatchedTracks(billboardEntries, matchedIndices)
    /\ matchedCount = Cardinality(matchedIndices)
    /\ chartDate = "2024-05-04"
    /\ isMatchingSpotify = FALSE
    /\ stopMatchingRef \in BOOLEAN
    /\ now = 0
    /\ localStorage = SaveOnChange(CurrentRender, [d \in Dates |-> <<>>], 0)
    /\ fetchClosure = Render("2024-05-04", "", <<>>, <<>>, {})
    /\ fetches = <<>>
    /\ runs = <<>>
    /\ lastLoad = <<>>
    /\ call = <<>>

Init == InitPage \/ InitEngine

\* time passes
Tick ==
    /\ scope = "cache"
    /\ now < MaxDays * DayMs
    /\ now' = now + DayMs
    /\ UNCHANGED <<billboardDate, tracks, billboardEntries, matchedIndices,
                   matchedCount, chartDate, isMatchingSpotify, stopMatchingRef,
                   localStorage, fetchClosure, fetches, runs, scope, call>>
    /\ lastLoad' = <<>>

\* The parent selects the date d.  The render with the new prop runs the
\* effects of lines 115-127 (cache load), 155-159 (save on change: saveToCache
\* is a new function) and 472-478 (handleFetchChart of this render is
\* exposed); when the load hit, the render of the loaded state follows and
\* runs the effect of lines 155-159 again.
SelectDate(d) ==
    /\ scope = "cache"
    /\ d # billboardDate
    /\ LET cached == loadCachedData(localStorage, d, now)
           ls1 == StorageAfterLoad(localStorage, d, now)
           first == Render(d, chartDate, billboardEntries, tracks, matchedIndices)
           ls2 == SaveOnChange(first, ls1, now)
       IN  /\ billboardDate' = d
           /\ fetchClosure' = first
           /\ lastLoad' = <<[date |-> d, hit |-> cached # <<>>,
                             written |-> IF localStorage[d] = <<>> THEN -1
                                         ELSE localStorage[d][1].timestamp]>>
           /\ IF cached # <<>>
              THEN LET c == cached[1]
                       second == Render(d, c.chartDate, c.entries, c.tracks,
                                        c.matchedIndices)
                   IN  /\ tracks' = c.tracks
                       /\ billboardEntries' = c.entries
                       /\ chartDate' = c.chartDate
                       /\ matchedIndices' = c.matchedIndices
                       /\ matchedCount' = Cardinality(c.matchedIndices)
                       /\ localStorage' = SaveOnChange(second, ls2, now)
              ELSE /\ localStorage' = ls2
                   /\ UNCHANGED <<tracks, billboardEntries, chartDate,
                                  matchedIndices, matchedCount>>
    /\ UNCHANGED <<isMatchingSpotify, stopMatchingRef, now, fetches, runs, scope, call>>

\* lines 161-176: window.__billboardFetch() is called; handleFetchChart runs
\* up to its await of FetchBillboardHot100
FetchChart ==
    /\ scope = "matching" \/ (scope = "cache" /\ Idle)
    /\ MayStart
    /\ fetchClosure.billboardDate # ""
    /\ tracks' = <<>>
    /\ matchedCount' = 0
    /\ matchedIndices' = {}
    /\ billboardEntries' = <<>>
    /\ fetches' = Append(fetches, [date |-> fetchClosure.billboardDate,
                                   closure |-> fetchClosure])
    /\ localStorage' = SaveOnChange(Render(billboardDate, chartDate, <<>>, <<>>, {}),
                                    localStorage, now)
    /\ UNCHANGED <<billboardDate, chartDate, isMatchingSpotify, stopMatchingRef,
                   now, fetchClosure, runs, scope, call>>
    /\ lastLoad' = <<>>

Without(seq, k) == [j \in 1..(Len(seq) - 1) |-> IF j < k THEN seq[j] ELSE seq[j + 1]]

\* lines 178-182, 210-215: the fetch failed or returned no entries
FetchFails(k) ==
    /\ k \in 1..Len(fetches)
    /\ fetches' = Without(fetches, k)
    /\ UNCHANGED <<billboardDate, tracks, billboardEntries, matchedIndices,
                   matchedCount, chartDate, isMatchingSpotify, stopMatchingRef,
                   localStorage, now, fetchClosure, runs, scope, call>>
    /\ lastLoad' = <<>>

\* lines 184-209: the fetch returned the chart; matching starts
FetchReturns(k) ==
    /\ k \in 1..Len(fetches)
    /\ LET f == fetches[k]
           entries == ChartEntries(f.date)
           initialTracks == InitialTracks(entries)
           run == StartRun("fetch", entries, initialTracks, 1, {}, 0, f.closure)
       IN  /\ billboardEntries' = entries
           /\ tracks' = initialTracks
           /\ chartDate' = f.date
           /\ isMatchingSpotify' = RunningAfter(run, TRUE)
           /\ stopMatchingRef' = FALSE
           /\ runs' = Append(runs, Noted(run, run))
           /\ localStorage' =
                SaveOnChange(Render(billboardDate, f.date, entries, initialTracks,
                                    matchedIndices),
                             ExitSave(run, localStorage, now), now)
    /\ fetches' = Without(fetches, k)
    /\ UNCHANGED <<billboardDate, matchedIndices, matchedCount, now, fetchClosure, scope, call>>
    /\ lastLoad' = <<>>

\* lines 345-364
ResumeMatching ==
    /\ scope # "engine"
    /\ ~(Len(billboardEntries) = 0 \/ isMatchingSpotify)
    /\ ~(Cardinality(matchedIndices) >= Len(billboardEntries))
    /\ MayStart
    /\ LET startIndex == FirstUnmatched(billboardEntries, matchedIndices)
           run == StartRun("resume", billboardEntries, tracks, startIndex,
                           matchedIndices, matchedCount, CurrentRender)
       IN  /\ isMatchingSpotify' = RunningAfter(run, TRUE)
           /\ stopMatchingRef' = FALSE
           /\ runs' = Append(runs, Noted(run, run))
           /\ localStorage' = ExitSave(run, localStorage, now)
    /\ UNCHANGED <<billboardDate, tracks, billboardEntries, matchedIndices,
                   matchedCount, chartDate, now, fetchClosure, fetches, scope, call>>
    /\ lastLoad' = <<>>

\* lines 366-390
ResetMatching ==
    /\ scope # "engine"
    /\ ~(Len(billboardEntries) = 0 \/ isMatchingSpotify)
    /\ MayStart
    /\ LET initialTracks == InitialTracks(billboardEntries)
           run == StartRun("reset", billboardEntries, initialTracks, 1, {}, 0,
                           CurrentRender)
       IN  /\ tracks' = initialTracks
           /\ matchedIndices' = {}
           /\ matchedCount' = 0
           /\ isMatchingSpotify' = RunningAfter(run, TRUE)
           /\ stopMatchingRef' = FALSE
           /\ runs' = Append(runs, Noted(run, run))
           /\ localStorage' =
                SaveOnChange(Render(billboardDate, chartDate, billboardEntries,
                                    initialTracks, {}),
                             ExitSave(run, localStorage, now), now)
    /\ UNCHANGED <<billboardDate, billboardEntries, chartDate, now, fetchClosure,
                   fetches, scope, call>>
    /\ lastLoad' = <<>>

\* lines 340-343; the button is rendered while isMatchingSpotify (line 518)
StopMatching ==
    /\ isMatchingSpotify
    /\ stopMatchingRef' = TRUE
    /\ runs' = [k \in 1..Len(runs) |->
                  IF Active(runs[k]) /\ ~runs[k].stopReq
                  THEN [runs[k] EXCEPT !.stopReq = TRUE, !.stopView = <<StopView>>]
                  ELSE runs[k]]
    /\ UNCHANGED <<billboardDate, tracks, billboardEntries, matchedIndices,
                   matchedCount, chartDate, isMatchingSpotify, localStorage, now,
                   fetchClosure, fetches, scope, call>>
    /\ lastLoad' = <<>>

\* a piece of run k that publishes nothing: the run moves to r2
Continue(k, r2) ==
    /\ runs' = [runs EXCEPT ![k] = Noted(runs[k], r2)]
    /\ isMatchingSpotify' = RunningAfter(r2, isMatchingSpotify)
    /\ localStorage' = ExitSave(r2, localStorage, now)
    /\ UNCHANGED <<billboardDate, tracks, billboardEntries, matchedIndices,
                   matchedCount, chartDate, stopMatchingRef, now, fetchClosure,
                   fetches, scope, call>>
    /\ lastLoad' = <<>>

\* lines 269-301, 323-337: SearchSpotify of run k returns results
SearchReturns(k, results) ==
    /\ k \in 1..Len(runs)
    /\ runs[k].pc = "search"
    /\ LET r == runs[k]
           r2 == OnSearchResult(r, results, stopMatchingRef)
           isMatch == r2.matched # r.matched
           mi == IF isMatch THEN r2.newMatchedIndices ELSE matchedIndices
       IN  /\ runs' = [runs EXCEPT ![k] = Noted(r, r2)]
           /\ matchedCount' = IF isMatch THEN r2.matched ELSE matchedCount
           /\ matchedIndices' = mi
           /\ tracks' = r2.updatedTracks
           /\ isMatchingSpotify' = RunningAfter(r2, isMatchingSpotify)
           /\ localStorage' =
                SaveOnChange(Render(billboardDate, chartDate, billboardEntries,
                                    r2.updatedTracks, mi),
                             ExitSave(r2, localStorage, now), now)
    /\ UNCHANGED <<billboardDate, billboardEntries, chartDate, stopMatchingRef,
                   now, fetchClosure, fetches, scope, call>>
    /\ lastLoad' = <<>>

\* lines 303-337: SearchSpotify of run k throws error
SearchThrows(k, error) ==
    /\ k \in 1..Len(runs)
    /\ runs[k].pc = "search"
    /\ Continue(k, OnSearchError(runs[k], error, stopMatchingRef))

\* lines 312, 315 and on: the delay after a failed attempt of run k is over
RetryWaitDone(k) ==
    /\ k \in 1..Len(runs)
    /\ runs[k].pc = "retryWait"
    /\ Continue(k, OnRetryWaitDone(runs[k], stopMatchingRef))

\* line 324 and on: the delay of run k between two entries is over
GapWaitDone(k) ==
    /\ k \in 1..Len(runs)
    /\ runs[k].pc = "gapWait"
    /\ Continue(k, OnGapWaitDone(runs[k], stopMatchingRef))

\* matchWithSpotify(billboardEntries, tracks, startIndex) called directly,
\* by the render on display
RunMatching(startIndex) ==
    /\ scope = "engine"
    /\ Idle
    /\ MayStart
    /\ LET run == StartRun("direct", billboardEntries, tracks, startIndex,
                           matchedIndices, matchedCount, CurrentRender)
       IN  /\ isMatchingSpotify' = RunningAfter(run, TRUE)
           /\ stopMatchingRef' = FALSE
           /\ runs' = Append(runs, Noted(run, run))
           /\ localStorage' = ExitSave(run, localStorage, now)
    /\ UNCHANGED <<billboardDate, tracks, billboardEntries, matchedIndices,
                   matchedCount, chartDate, now, fetchClosure, fetches, scope, call>>
    /\ lastLoad' = <<>>

Next ==
    \/ Tick
    \/ \E startIndex \in 1..NumEntries : RunMatching(startIndex)
    \/ \E d \in Dates : SelectDate(d)
    \/ FetchChart
    \/ \E k \in 1..MaxRuns : FetchFails(k)
    \/ \E k \in 1..MaxRuns : FetchReturns(k)
    \/ ResumeMatching
    \/ ResetMatching
    \/ StopMatching
    \/ \E k \in 1..MaxRuns, results \in SearchResults : SearchReturns(k, results)
    \/ \E k \in 1..MaxRuns, error \in ErrorTexts : SearchThrows(k, error)
    \/ \E k \in 1..MaxRuns : RetryWaitDone(k)
    \/ \E k \in 1..MaxRuns : GapWaitDone(k)

Spec == Init /\ [][Next]_vars

\* ---------------------------------------------------------------- claims
RunIds == 1..Len(runs)

ActiveRuns == {k \in RunIds : Active(runs[k])}

\* the first candidate of a result carries an identifier
FirstHasId(results) == results # <<>> /\ Head(results).id # ""

\* C9: an index joins the matched-index set exactly when a search call for it
\* returns a result whose first candidate has a non-empty identifier; the
\* track record then carries that identifier in both identifier fields and
\* the matched count of the run grows by one and is published.  An empty
\* result, or a first candidate without identifier, leaves the track record
\* and the count as they were and is followed by no further call for that
\* index.  No other step adds an index to the set of a run, and the
\* published set gains an index only by such a step or by a cache load.
C9_MatchRule ==
    [][/\ \A k \in RunIds, results \in SearchResults :
            SearchReturns(k, results) =>
                LET r == runs[k]
                    r2 == runs'[k]
                IN  IF FirstHasId(results)
                    THEN /\ r.i \in matchedIndices'
                         /\ tracks'[r.i].spotify_id = Head(results).id
                         /\ tracks'[r.i].isrc = Head(results).id
                         /\ r2.matched = r.matched + 1
                         /\ matchedCount' = r.matched + 1
                         /\ Active(r2) =>
                               r2.newMatchedIndices = r.newMatchedIndices \cup {r.i}
                    ELSE /\ tracks'[r.i] = r.updatedTracks[r.i]
                         /\ r2.matched = r.matched
                         /\ matchedCount' = matchedCount
                         /\ matchedIndices' = matchedIndices
                         /\ Active(r2) =>
                               r2.newMatchedIndices = r.newMatchedIndices
                         /\ r2.pc = "search" => r2.i > r.i
       /\ \A k \in RunIds :
            (Active(runs'[k]) /\ runs'[k].newMatchedIndices # runs[k].newMatchedIndices)
                => \E results \in SearchResults :
                      SearchReturns(k, results) /\ FirstHasId(results)
       /\ (\E j \in matchedIndices' : j \notin matchedIndices)
                => \/ lastLoad' # <<>>
                   \/ \E k \in RunIds, results \in SearchResults :
                         SearchReturns(k, results) /\ FirstHasId(results)
      ]_vars

\* C9 witness: the first entry has been matched with the identifier of the
\* first candidate
C9_Witness ==
    /\ matchedIndices = {1}
    /\ matchedCount = 1
    /\ Len(tracks) >= 1
    /\ tracks[1].spotify_id = "abc123"
    /\ tracks[1].isrc = "abc123"
    /\ \E k \in RunIds : runs[k].pc = "gapWait" /\ runs[k].i = 1 /\ runs[k].kind = "fetch"

\* the error texts that contain "429", "rate", "too many" or "quota", in
\* any case
RateLimitTexts ==
    { <<"4", "2", "9">>,
      <<"R", "A", "T", "E">>,
      <<"T", "o", "o", " ", "M", "a", "n", "y">>,
      <<"Q", "u", "o", "t", "a">> }

\* C1: at most one matching run is active at any time.
C1_SingleRun == Cardinality(ActiveRuns) <= 1

\* C2: once a stop request has set the cancellation flag during a run, the
\* flag stays set while that run is active, the run calls SearchSpotify no
\* more, and it begins at most one further delay, of at most 30 s.
C2_StopEffective ==
    [][\A k \in RunIds :
          (runs'[k].stopReq /\ Active(runs'[k])) =>
              /\ stopMatchingRef'
              /\ (runs[k].stopReq /\ runs'[k] # runs[k]) => runs'[k].pc # "search"
              /\ runs'[k].waitsAfterStop <= 1
              /\ runs'[k].wait <= 30000
      ]_vars

\* C3: when a run that was asked to stop returns, every index that was in the
\* published matched-index set at the stop request is still in it, its
\* track record carries the same identifier, and the matched count is not
\* lower.
C3_StopKeepsMatches ==
    [][\A k \in RunIds :
          (Active(runs[k]) /\ ~Active(runs'[k]) /\ runs[k].stopReq) =>
              LET v == runs[k].stopView[1]
              IN  /\ v.matchedIndices \subseteq matchedIndices'
                  /\ \A i \in v.matchedIndices :
                        /\ i \in DOMAIN tracks'
                        /\ i \in DOMAIN v.tracks
                        /\ tracks'[i].spotify_id = v.tracks[i].spotify_id
                  /\ matchedCount' >= v.matchedCount
      ]_vars

\* C4: when a run returns, the cache record of the chart date holds the track
\* records and the matched-index set published at that moment.
C4_ExitSavesProgress ==
    [][\A k \in 1..Len(runs') :
          (~Active(runs'[k]) /\ (k \in RunIds => Active(runs[k]))) =>
              /\ chartDate' \in Dates
              /\ localStorage'[chartDate'] # <<>>
              /\ localStorage'[chartDate'][1].tracks = tracks'
              /\ localStorage'[chartDate'][1].matchedIndices = matchedIndices'
      ]_vars

\* C5: a run started by resume with the matched-index set S takes S and the
\* matched count over as they are published, never calls SearchSpotify for
\* an index in S, never lowers its matched count, and publishes the count
\* whenever it has raised it.
C5_ResumeKeepsMatches ==
    [][\A k \in 1..Len(runs') :
          runs'[k].kind = "resume" =>
              IF k \notin RunIds
              THEN /\ runs'[k].matched = matchedCount
                   /\ matchedCount' = matchedCount
                   /\ matchedIndices' = matchedIndices
                   /\ Active(runs'[k])
                   /\ runs'[k].closure.matchedIndices = matchedIndices
                   /\ runs'[k].newMatchedIndices = matchedIndices
                   /\ runs'[k].pc = "search"
                   /\ runs'[k].i \notin matchedIndices
              ELSE Active(runs[k]) =>
                   /\ runs'[k].pc = "search" =>
                         runs'[k].i \notin runs[k].closure.matchedIndices
                   /\ runs'[k].matched >= runs[k].matched
                   /\ runs'[k].matched > runs[k].matched =>
                         matchedCount' = runs'[k].matched
      ]_vars

\* C5 witness: a run resumed with the second index matched has passed the
\* first index and returned without a stop request
C5_Witness ==
    \E k \in RunIds :
        /\ runs[k].kind = "resume"
        /\ runs[k].pc = "done"
        /\ ~runs[k].stopReq
        /\ runs[k].matched = 1
        /\ matchedIndices = {2}
        /\ tracks[1].spotify_id = ""

\* C6: matchWithSpotify called when every index of the entries is in the
\* matched-index set returns at once: it has called SearchSpotify not once
\* and begun no delay, and the matched count, the matched-index set and the
\* track records are as before.
C6_FullyMatchedIsNoOp ==
    [][(/\ Len(runs') = Len(runs) + 1
        /\ runs'[Len(runs')].kind \in {"direct", "resume"}
        /\ \A i \in 1..Len(billboardEntries) : i \in matchedIndices) =>
            LET r2 == runs'[Len(runs')]
            IN  /\ r2.pc = "done"
                /\ ~r2.searched
                /\ r2.wait = 0
                /\ r2.matched = matchedCount
                /\ matchedCount' = matchedCount
                /\ matchedIndices' = matchedIndices
                /\ tracks' = tracks
                /\ ~isMatchingSpotify'
      ]_vars

\* C6 witness: a direct call on a fully matched chart has returned
C6_Witness ==
    /\ scope = "engine"
    /\ Len(runs) = 1
    /\ runs[1].pc = "done"
    /\ ~runs[1].searched
    /\ matchedIndices = 1..NumEntries
    /\ matchedCount = NumEntries
    /\ \A i \in 1..NumEntries : tracks[i].spotify_id # ""

\* the pieces of run k: a search settles or a delay ends
RunStep(k) ==
    \/ \E results \in SearchResults : SearchReturns(k, results)
    \/ \E error \in ErrorTexts : SearchThrows(k, error)
    \/ RetryWaitDone(k)
    \/ GapWaitDone(k)

\* every pending SearchSpotify call settles and every timer fires
SpecFair == Spec /\ \A k \in 1..MaxRuns : WF_vars(RunStep(k))

\* C7 (safety part): a call of SearchSpotify for an entry is at most the
\* third for that entry; each failed one raises the attempt count by one and
\* the count is not reset while the run stays on the entry; once the third
\* has failed the entry is not matched and the next call is for a later
\* index; a run that returns without a stop request has passed the last
\* entry.
C7_RetryBudget ==
    [][/\ \A k \in 1..Len(runs') :
            /\ runs'[k].pc = "search" => runs'[k].retryCount < 3
            /\ (~Active(runs'[k]) /\ ~runs'[k].stopReq) => runs'[k].i = NumEntries + 1
       /\ \A k \in RunIds :
            /\ runs'[k].i >= runs[k].i
            /\ (Active(runs'[k]) /\ runs'[k].i = runs[k].i) =>
                  runs'[k].retryCount >= runs[k].retryCount
       /\ \A k \in RunIds, error \in ErrorTexts :
            SearchThrows(k, error) =>
                /\ runs'[k].retryCount = runs[k].retryCount + 1
                /\ runs'[k].matched = runs[k].matched
                /\ Active(runs'[k]) =>
                      runs'[k].newMatchedIndices = runs[k].newMatchedIndices
                /\ runs'[k].retryCount = 3 =>
                      /\ runs'[k].pc # "search"
                      /\ runs'[k].pc = "gapWait" => runs'[k].i = runs[k].i
      ]_vars

\* C7 (termination): from some point on no run is active, so every run of
\* the behaviour has returned
C7_Terminates == <>[](ActiveRuns = {})

\* C7: each entry gets at most 3 search attempts per run, an entry whose
\* third attempt failed stays unmatched and the run moves on, and every run
\* returns; one that was not asked to stop has then passed the last entry.
C7_BoundedRetries == C7_RetryBudget /\ C7_Terminates

\* C7 witness: the third attempt on the first entry has failed and the run
\* is on its way to the second entry, the first one unmatched
C7_Witness ==
    \E k \in RunIds :
        /\ runs[k].pc = "gapWait"
        /\ runs[k].i = 1
        /\ runs[k].retryCount = 3
        /\ 1 \notin runs[k].newMatchedIndices
        /\ ~runs[k].stopReq

\* C8: after the n-th failed attempt on an entry, n < 3, the run waits
\* 10000 ms x n when the error text is a rate-limit text and 1500 ms x n
\* otherwise, and the next attempt on the same entry follows that wait
\* directly (unless a stop was requested); a successful attempt leaves the
\* number of consumed retries as it is.
C8_BackoffDelays ==
    [][/\ \A k \in RunIds, error \in ErrorTexts :
            SearchThrows(k, error) =>
                LET n == runs[k].retryCount + 1
                IN  n < 3 =>
                      /\ runs'[k].pc = "retryWait"
                      /\ runs'[k].i = runs[k].i
                      /\ runs'[k].retryCount = n
                      /\ runs'[k].wait = IF error \in RateLimitTexts
                                         THEN 10000 * n
                                         ELSE 1500 * n
       /\ \A k \in RunIds :
            (/\ runs[k].pc = "retryWait"
             /\ runs'[k].pc # "retryWait"
             /\ runs[k].retryCount < 3
             /\ ~stopMatchingRef) =>
                /\ runs'[k].pc = "search"
                /\ runs'[k].i = runs[k].i
                /\ runs'[k].retryCount = runs[k].retryCount
       /\ \A k \in RunIds, results \in SearchResults :
            SearchReturns(k, results) =>
                /\ runs'[k].retryCount = runs[k].retryCount
                /\ runs'[k].pc \in {"gapWait", "done"}
      ]_vars

\* C8 witness: the first attempt on an entry failed with a rate-limit error
\* and the run waits 10 s
C8_Witness ==
    \E k \in RunIds :
        /\ runs[k].pc = "retryWait"
        /\ runs[k].retryCount = 1
        /\ runs[k].wait = 10000

\* C10: a cache read for a date hits iff a record is stored under the date
\* and its age is at most 7 days; a hit puts the stored record on display, a
\* miss leaves the display as it is; a read that finds an older record
\* removes it; and no other step removes a record.
C10_CacheExpiry ==
    [][/\ lastLoad' # <<>> =>
            LET d == lastLoad'[1].date
                hit == lastLoad'[1].hit
            IN  /\ hit <=> (/\ localStorage[d] # <<>>
                            /\ now - localStorage[d][1].timestamp
                                  <= 7 * 24 * 60 * 60 * 1000)
                /\ hit =>
                      /\ tracks' = localStorage[d][1].tracks
                      /\ billboardEntries' = localStorage[d][1].entries
                      /\ chartDate' = localStorage[d][1].chartDate
                      /\ matchedIndices' = localStorage[d][1].matchedIndices
                /\ ~hit =>
                      UNCHANGED <<tracks, billboardEntries, chartDate,
                                  matchedIndices, matchedCount>>
                /\ (~hit /\ localStorage[d] # <<>>) =>
                      \/ localStorage'[d] = <<>>
                      \/ localStorage'[d][1].timestamp = now
       /\ \A d \in Dates :
            (localStorage[d] # <<>> /\ localStorage'[d] = <<>>) =>
                /\ lastLoad' # <<>>
                /\ lastLoad'[1].date = d
                /\ ~lastLoad'[1].hit
                /\ now - localStorage[d][1].timestamp > 7 * 24 * 60 * 60 * 1000
      ]_vars

\* C10 witness: a read has found a record written 8 days before, missed,
\* and the record it found is no longer stored
C10_Witness ==
    /\ lastLoad # <<>>
    /\ ~lastLoad[1].hit
    /\ lastLoad[1].written >= 0
    /\ now - lastLoad[1].written = 8 * 24 * 60 * 60 * 1000
    /\ \/ localStorage[lastLoad[1].date] = <<>>
       \/ localStorage[lastLoad[1].date][1].timestamp = now

\* C18: a delay after a failed attempt is begun only when another attempt on
\* the same entry follows: after the third failed attempt on an entry, with
\* a rate-limit error or any other, the run begins no such delay.
C18_NoWaitAfterLastAttempt ==
    [][\A k \in RunIds, error \in ErrorTexts :
            SearchThrows(k, error) =>
                /\ runs'[k].pc = "retryWait" => runs'[k].retryCount < 3
                /\ runs[k].retryCount = 2 => runs'[k].wait = 0
      ]_vars

\* C19: a run that leaves an entry it has searched for begins one delay of
\* 1500 ms and goes on with a later entry when the delay is over; it begins
\* none after the last entry or once a stop has been requested, and none for
\* an index it skips: the delay is begun only by the step that ends the
\* attempts on an entry.
C19_GapBetweenEntries ==
    [][\A k \in RunIds :
          /\ (runs'[k].pc = "gapWait" /\ runs[k].pc # "gapWait") =>
                /\ runs[k].pc \in {"search", "retryWait"}
                /\ runs[k].searched
                /\ runs'[k].i = runs[k].i
                /\ runs'[k].i < Len(runs'[k].entries)
                /\ ~runs[k].stopReq
                /\ runs'[k].wait = 1500
          /\ (runs[k].pc = "gapWait" /\ runs'[k].pc # "gapWait") =>
                /\ runs'[k].pc \in {"search", "done"}
                /\ runs'[k].i > runs[k].i
          /\ (/\ runs[k].pc \in {"search", "retryWait"}
              /\ runs'[k].pc \notin {"search", "retryWait", "gapWait"}) =>
                \/ runs[k].i = Len(runs[k].entries)
                \/ runs[k].stopReq
          /\ (runs[k].pc \in {"search", "retryWait"} /\ runs'[k].pc = "search") =>
                runs'[k].i = runs[k].i
      ]_vars

\* C20: a run adds to its matched indices and updates in its track records
\* only the index it is searching for, that index is not among its matched
\* indices before, the index of a run never goes down and the search after
\* a delay between entries is for a later index; so a run that began with
\* no matched index has matched only indices below the one it searches for.
C20_IncreasingOrder ==
    [][/\ \A k \in RunIds :
            /\ runs'[k].i >= runs[k].i
            /\ (runs[k].pc = "gapWait" /\ runs'[k].pc = "search") =>
                  runs'[k].i > runs[k].i
            /\ Active(runs'[k]) =>
                  /\ runs'[k].newMatchedIndices \ runs[k].newMatchedIndices
                        \subseteq {runs[k].i}
                  /\ \A j \in 1..Len(runs[k].updatedTracks) :
                        runs'[k].updatedTracks[j] # runs[k].updatedTracks[j] =>
                            j = runs[k].i
                  /\ runs'[k].pc = "search" =>
                        runs'[k].i \notin runs'[k].newMatchedIndices
                  /\ runs'[k].kind \in {"fetch", "reset"} =>
                        \A j \in runs'[k].newMatchedIndices :
                            /\ j <= runs'[k].i
                            /\ runs'[k].pc = "search" => j < runs'[k].i
       /\ \A k \in RunIds, results \in SearchResults :
            (SearchReturns(k, results) /\ results # <<>> /\ results[1].id # "") =>
                /\ matchedIndices' = runs[k].newMatchedIndices \cup {runs[k].i}
                /\ runs[k].i \notin runs[k].newMatchedIndices
                /\ \A j \in 1..Len(tracks') :
                      tracks'[j] # runs[k].updatedTracks[j] => j = runs[k].i
                /\ runs'[k].pc # "search"
      ]_vars

\* C20 witness: a run that began with no matched index has matched the
\* first entry and then the second one, and has returned
C20_Witness ==
    \E k \in RunIds :
        /\ runs[k].kind \in {"fetch", "reset"}
        /\ runs[k].pc = "done"
        /\ runs[k].i = 3
        /\ runs[k].matched = 2
        /\ matchedIndices = {1, 2}

\* the matched indices mi are the indices of the track records trks that
\* carry an identifier
MatchedAreIdentified(trks, mi) ==
    /\ mi \subseteq 1..Len(trks)
    /\ \A i \in 1..Len(trks) : i \in mi <=> trks[i].spotify_id # ""

\* C21: in the published state and in every cache record, an index is in
\* the set of matched indices iff the track record at that index carries an
\* identifier.
C21_MatchedIffIdentifier ==
    scope # "backend" =>
        /\ MatchedAreIdentified(tracks, matchedIndices)
        /\ \A d \in Dates :
              localStorage[d] # <<>> =>
                  MatchedAreIdentified(localStorage[d][1].tracks,
                                       localStorage[d][1].matchedIndices)

\* C29: in every state of the page the matched count is the number of
\* matched indices.
C29_CountIsSetSize ==
    scope # "backend" => matchedCount = Cardinality(matchedIndices)

\* C29 witness: a cache read has hit and has put a chart with one matched
\* index on display
C29_Witness ==
    /\ lastLoad # <<>>
    /\ lastLoad[1].hit
    /\ matchedCount = 1
    /\ Cardinality(matchedIndices) = 1

\* C22: every cache record stored under a date has that date as its key
\* field and as its chart date, holds the entries of the chart of that date
\* and has one track record for each entry, named after it.
C22_RecordOfItsDate ==
    scope # "backend" =>
        \A d \in Dates :
            localStorage[d] # <<>> =>
                LET record == localStorage[d][1]
                IN  /\ record.date = d
                    /\ record.chartDate = d
                    /\ record.entries = ChartEntries(d)
                    /\ Len(record.tracks) = Len(record.entries)
                    /\ \A k \in 1..Len(record.tracks) :
                          record.tracks[k].name = record.entries[k].title

\* C30: a cache read that hits leaves the record of the date it read as it
\* was, its timestamp included.
C30_HitKeepsRecord ==
    [][(lastLoad' # <<>> /\ lastLoad'[1].hit) =>
            localStorage'[lastLoad'[1].date] = localStorage[lastLoad'[1].date]
      ]_vars

\* the indices of the track records that carry an identifier
Identified(trks) == {i \in 1..Len(trks) : trks[i].spotify_id # ""}

\* C23: the step of handleResetMatching publishes no matched index, a count
\* of 0 and track records without identifiers, and starts a run with no
\* matched index at the first entry; and as long as that run is the last
\* one started, the published state and every cache record that is written
\* hold no match but those of that run.
C23_ResetDiscards ==
    [][/\ ResetMatching =>
            /\ matchedIndices' = {}
            /\ matchedCount' = 0
            /\ Identified(tracks') = {}
            /\ runs'[Len(runs')].pc = "search"
            /\ runs'[Len(runs')].i = 1
            /\ runs'[Len(runs')].newMatchedIndices = {}
            /\ Identified(runs'[Len(runs')].updatedTracks) = {}
       /\ (/\ runs # <<>>
           /\ runs[Len(runs)].kind = "reset"
           /\ runs' # <<>>
           /\ runs'[Len(runs')].kind = "reset"
           /\ Active(runs[Len(runs)])) =>
            LET r == runs[Len(runs)]
                own == IF Active(runs'[Len(runs')])
                       THEN runs'[Len(runs')].newMatchedIndices
                       ELSE r.newMatchedIndices \cup {r.i}
            IN  /\ matchedIndices' \subseteq own
                /\ Identified(tracks') \subseteq own
                /\ \A d \in Dates :
                      (localStorage'[d] # localStorage[d] /\ localStorage'[d] # <<>>) =>
                          /\ localStorage'[d][1].matchedIndices \subseteq own
                          /\ Identified(localStorage'[d][1].tracks) \subseteq own
      ]_vars





\* ================================================================ backend
\* The Go functions of src/backend are pure: a behaviour of the backend
\* specifications is one call.  A Go string is modelled as the sequence of
\* its code points; InvalidByte stands for a byte that is not part of a
\* valid UTF-8 encoding.

\* ---------------------------------------------------------------- bounds
\* characters of a name handed to SanitizeFilename
MaxNameLen == 3

\* ------------------------------------------------------ Go string library
InvalidByte == -1

\* for _, r := range s: an invalid byte is read as U+FFFD
DecodeRunes(s) == [i \in 1..Len(s) |-> IF s[i] = InvalidByte THEN 65533 ELSE s[i]]

\* unicode.IsControl, the category Cc
IsControl(r) == r \in 0..31 \/ r \in 127..159

\* unicode.IsSpace, as strings.TrimSpace uses it (code points up to U+00A0)
UnicodeSpace == {9, 10, 11, 12, 13, 32, 133, 160}

\* \s of Go's regexp: [\t\n\f\r ]
RegexSpace == {9, 10, 12, 13, 32}

\* strings.ReplaceAll for a one-character pattern, and a regexp character
\* class replaced by one character
ReplaceChars(s, class, rep) ==
    [i \in 1..Len(s) |-> IF s[i] \in class THEN rep ELSE s[i]]

RECURSIVE TrimLeft(_, _)
\* strings.TrimLeft
TrimLeft(s, cutset) ==
    IF s # <<>> /\ Head(s) \in cutset THEN TrimLeft(Tail(s), cutset) ELSE s

RECURSIVE TrimRight(_, _)
\* strings.TrimRight
TrimRight(s, cutset) ==
    IF s # <<>> /\ s[Len(s)] \in cutset
    THEN TrimRight(SubSeq(s, 1, Len(s) - 1), cutset)
    ELSE s

\* strings.Trim
Trim(s, cutset) == TrimRight(TrimLeft(s, cutset), cutset)

\* strings.TrimSpace
TrimSpace(s) == Trim(s, UnicodeSpace)

RECURSIVE CollapseRuns(_, _, _)
\* regexp `[class]+` replaced by rep: every maximal run becomes rep
CollapseRuns(s, class, rep) ==
    IF s = <<>> THEN <<>>
    ELSE IF Head(s) \in class
         THEN rep \o CollapseRuns(TrimLeft(s, class), class, rep)
         ELSE <<Head(s)>> \o CollapseRuns(Tail(s), class, rep)

\* utf8.ValidString
ValidString(s) == \A i \in 1..Len(s) : s[i] # InvalidByte

\* strings.ToValidUTF8: every run of invalid bytes becomes the replacement
ToValidUTF8(s, replacement) == CollapseRuns(s, {InvalidByte}, replacement)

\* ------------------------------------------------------------ filename.go
\* line 76: the class [<>:"\\|?*]
UnsafeClass == {60, 62, 58, 34, 92, 124, 63, 42}

\* lines 82-91: the runes the loop does not write
Skipped(r) ==
    \/ r < 32 /\ r # 9 /\ r # 10 /\ r # 13
    \/ r = 127
    \/ IsControl(r) /\ r # 9 /\ r # 10 /\ r # 13

\* line 110: "Unknown"
Unknown == <<85, 110, 107, 110, 111, 119, 110>>

\* mutant: the whitespace runs are left as they are
CollapseSpace_Keep(s) == s

\* lines 101-102
CollapseSpace(s) == CollapseRuns(s, RegexSpace, <<32>>)

\* lines 72-119
SanitizeFilename(name) ==
    LET s1 == ReplaceChars(name, {47}, 32)
        s2 == ReplaceChars(s1, UnsafeClass, 32)
        s3 == SelectSeq(DecodeRunes(s2), LAMBDA r : ~Skipped(r))
        s4 == TrimSpace(s3)
        s5 == Trim(s4, {46, 32})
        s6 == CollapseSpace(s5)
        s7 == CollapseRuns(s6, {95}, <<95>>)
        s8 == Trim(s7, {95, 32})
    IN  IF s8 = <<>> THEN Unknown
        ELSE IF ~ValidString(s8) THEN ToValidUTF8(s8, <<95>>)
        ELSE s8

\* the characters of the names: / < > : " \ | ? *, U+0001, tab, line feed,
\* DEL, U+0085, space, '.', '_', 'a', U+00A0 and an invalid byte
NameChars ==
    {47, 60, 62, 58, 34, 92, 124, 63, 42, 1, 9, 10, 127, 133, 32, 46, 95, 97,
     160, InvalidByte}

\* the strings over a set of characters up to a length
Strings(chars, maxLen) == UNION {[1..n -> chars] : n \in 0..maxLen}

\* the page is not part of a backend behaviour
NoPage ==
    /\ scope = "backend"
    /\ billboardDate = ""
    /\ tracks = <<>>
    /\ billboardEntries = <<>>
    /\ matchedIndices = {}
    /\ matchedCount = 0
    /\ chartDate = ""
    /\ isMatchingSpotify = FALSE
    /\ stopMatchingRef = FALSE
    /\ localStorage = <<>>
    /\ now = 0
    /\ fetchClosure = <<>>
    /\ fetches = <<>>
    /\ runs = <<>>
    /\ lastLoad = <<>>

pageVars ==
    <<billboardDate, tracks, billboardEntries, matchedIndices, matchedCount,
      chartDate, isMatchingSpotify, stopMatchingRef, localStorage, now,
      fetchClosure, fetches, runs, scope, lastLoad>>

\* a call that has not returned: no result yet
NewCall(fn, arg, opt) == <<[fn |-> fn, arg |-> arg, opt |-> opt, res |-> <<>>]>>

\* the call is one of fn that has returned n results
Returned(fn, n) == call # <<>> /\ call[1].fn = fn /\ Len(call[1].res) = n

SanitizeCalls ==
    {NewCall("SanitizeFilename", x, <<>>) : x \in Strings(NameChars, MaxNameLen)}

\* SanitizeFilename(name) returns
CallSanitizeFilename ==
    /\ Returned("SanitizeFilename", 0)
    /\ call' = <<[call[1] EXCEPT !.res = <<SanitizeFilename(call[1].arg)>>]>>
    /\ UNCHANGED pageVars

\* the result is sanitized again, as sanitizeFolderName does with a folder
\* name that was built from sanitized names
CallSanitizeFilenameAgain ==
    /\ Returned("SanitizeFilename", 1)
    /\ call' = <<[call[1] EXCEPT !.res = Append(@, SanitizeFilename(call[1].res[1]))]>>
    /\ UNCHANGED pageVars

\* characters of a folder path after its prefix
MaxPathLen == 5

\* pieces of a filename template
MaxTemplatePieces == 3

\* strings.HasPrefix
HasPrefix(s, prefix) ==
    Len(s) >= Len(prefix) /\ SubSeq(s, 1, Len(prefix)) = prefix

\* s[n:]
From(s, n) == SubSeq(s, n + 1, Len(s))

RECURSIVE Split(_, _)
\* strings.Split for a one-character separator
Split(s, sep) ==
    IF \A i \in 1..Len(s) : s[i] # sep THEN <<s>>
    ELSE LET i == CHOOSE j \in 1..Len(s) :
                      s[j] = sep /\ \A k \in 1..(j - 1) : s[k] # sep
         IN  <<SubSeq(s, 1, i - 1)>> \o Split(From(s, i), sep)

RECURSIVE Join(_, _)
\* strings.Join
Join(parts, sep) ==
    IF parts = <<>> THEN <<>>
    ELSE IF Len(parts) = 1 THEN parts[1]
    ELSE parts[1] \o sep \o Join(Tail(parts), sep)

RECURSIVE ReplaceAll(_, _, _)
\* strings.ReplaceAll, old not empty
ReplaceAll(s, old, new) ==
    IF s = <<>> THEN <<>>
    ELSE IF HasPrefix(s, old)
         THEN new \o ReplaceAll(From(s, Len(old)), old, new)
         ELSE <<Head(s)>> \o ReplaceAll(Tail(s), old, new)

\* strings.Contains for a one-character pattern
Contains(s, c) == \E i \in 1..Len(s) : s[i] = c

\* line 184
sanitizeFolderName(name) == SanitizeFilename(name)

\* lines 152, 160, 166: the parts that are not sanitized (i counts from 0)
KeptVerbatim(isUNC, i, part) ==
    \/ isUNC /\ i < 2
    \/ ~isUNC /\ i = 0 /\ Len(part) = 2 /\ part[2] = 58
    \/ ~isUNC /\ i = 0 /\ part = <<>>

RECURSIVE SanitizedParts(_, _, _)
\* lines 150-175: the loop over the parts from index i (counted from 0) on
SanitizedParts(parts, i, isUNC) ==
    IF i >= Len(parts) THEN <<>>
    ELSE LET part == parts[i + 1]
             rest == SanitizedParts(parts, i + 1, isUNC)
         IN  IF KeptVerbatim(isUNC, i, part)
             THEN IF isUNC /\ part = <<>> THEN rest ELSE <<part>> \o rest
             ELSE IF sanitizeFolderName(part) # <<>>
                  THEN <<sanitizeFolderName(part)>> \o rest
                  ELSE rest

\* lines 131-182; Separator is filepath.Separator of the build
SanitizeFolderPath(folderPath, Separator) ==
    LET isUNC == HasPrefix(folderPath, <<92, 92>>)
        workPath == IF isUNC THEN From(folderPath, 2) ELSE folderPath
        normalizedPath == ReplaceChars(workPath, {47}, Separator)
        parts == Split(normalizedPath, Separator)
        result == Join(SanitizedParts(parts, 0, isUNC), <<Separator>>)
    IN  IF isUNC THEN <<92, 92>> \o result ELSE result

\* filepath.Separator: '\' on Windows, '/' elsewhere
Separators == {92, 47}

\* the characters of the paths: '\', '/', 'a', ':'
PathChars == {92, 47, 97, 58}

FolderPathCalls ==
    {NewCall("SanitizeFolderPath", prefix \o x, Separator) :
        prefix \in {<<>>, <<92, 92>>},
        x \in Strings(PathChars, MaxPathLen),
        Separator \in Separators}

\* SanitizeFolderPath(folderPath) returns
CallSanitizeFolderPath ==
    /\ Returned("SanitizeFolderPath", 0)
    /\ call' = <<[call[1] EXCEPT
                    !.res = <<SanitizeFolderPath(call[1].arg, call[1].opt)>>]>>
    /\ UNCHANGED pageVars

\* the placeholders and other texts of filename.go, as code points
PhTitle == <<123, 116, 105, 116, 108, 101, 125>>
PhArtist == <<123, 97, 114, 116, 105, 115, 116, 125>>
PhAlbum == <<123, 97, 108, 98, 117, 109, 125>>
PhAlbumArtist ==
    <<123, 97, 108, 98, 117, 109, 95, 97, 114, 116, 105, 115, 116, 125>>
PhYear == <<123, 121, 101, 97, 114, 125>>
PhPlaylist == <<123, 112, 108, 97, 121, 108, 105, 115, 116, 125>>
PhCreator == <<123, 99, 114, 101, 97, 116, 111, 114, 125>>
PhDisc == <<123, 100, 105, 115, 99, 125>>
PhTrack == <<123, 116, 114, 97, 99, 107, 125>>
\* ".flac"
FlacExt == <<46, 102, 108, 97, 99>>
\* "artist-title"
FmtArtistTitle == <<97, 114, 116, 105, 115, 116, 45, 116, 105, 116, 108, 101>>
\* "title"
FmtTitle == <<116, 105, 116, 108, 101>>
\* "title-artist"
FmtTitleArtist == <<116, 105, 116, 108, 101, 45, 97, 114, 116, 105, 115, 116>>
\* " - "
Dash == <<32, 45, 32>>
\* ". "
Dot == <<46, 32>>

RECURSIVE Digits(_)
\* %d of a number that is not negative
Digits(n) == IF n < 10 THEN <<48 + n>> ELSE Digits(n \div 10) \o <<48 + (n % 10)>>

\* %02d of a number that is not negative
Digits02(n) == IF n < 10 THEN <<48>> \o Digits(n) ELSE Digits(n)

RECURSIVE RemoveTrackDot(_)
\* line 49: `\{track\}\.\s*` replaced by ""
RemoveTrackDot(s) ==
    IF s = <<>> THEN <<>>
    ELSE IF HasPrefix(s, PhTrack \o <<46>>)
         THEN RemoveTrackDot(TrimLeft(From(s, Len(PhTrack) + 1), RegexSpace))
         ELSE <<Head(s)>> \o RemoveTrackDot(Tail(s))

RECURSIVE RemoveTrackDash(_)
\* line 50: `\{track\}\s*-\s*` replaced by ""
RemoveTrackDash(s) ==
    IF s = <<>> THEN <<>>
    ELSE LET after == TrimLeft(From(s, Len(PhTrack)), RegexSpace)
         IN  IF HasPrefix(s, PhTrack) /\ HasPrefix(after, <<45>>)
             THEN RemoveTrackDash(TrimLeft(Tail(after), RegexSpace))
             ELSE <<Head(s)>> \o RemoveTrackDash(Tail(s))

RECURSIVE RemoveTrack(_)
\* line 51: `\{track\}\s*` replaced by ""
RemoveTrack(s) ==
    IF s = <<>> THEN <<>>
    ELSE IF HasPrefix(s, PhTrack)
         THEN RemoveTrack(TrimLeft(From(s, Len(PhTrack)), RegexSpace))
         ELSE <<Head(s)>> \o RemoveTrack(Tail(s))

\* lines 39-43
ReplaceDisc(filename, discNumber) ==
    IF discNumber > 0
    THEN ReplaceAll(filename, PhDisc, Digits(discNumber))
    ELSE ReplaceAll(filename, PhDisc, <<>>)

\* lines 45-52
ReplaceTrack(filename, position) ==
    IF position > 0
    THEN ReplaceAll(filename, PhTrack, Digits02(position))
    ELSE RemoveTrack(RemoveTrackDash(RemoveTrackDot(filename)))

\* lines 12-70; a is the record of the arguments
BuildExpectedFilename(a) ==
    LET safeTitle == SanitizeFilename(a.trackName)
        safeArtist == SanitizeFilename(a.artistName)
        safeAlbum == SanitizeFilename(a.albumName)
        safeAlbumArtist == SanitizeFilename(a.albumArtist)
        safePlaylist == SanitizeFilename(a.playlistName)
        safeCreator == SanitizeFilename(a.playlistOwner)
        year == IF Len(a.releaseDate) >= 4 THEN SubSeq(a.releaseDate, 1, 4) ELSE <<>>
        f1 == ReplaceAll(a.filenameFormat, PhTitle, safeTitle)
        f2 == ReplaceAll(f1, PhArtist, safeArtist)
        f3 == ReplaceAll(f2, PhAlbum, safeAlbum)
        f4 == ReplaceAll(f3, PhAlbumArtist, safeAlbumArtist)
        f5 == ReplaceAll(f4, PhYear, year)
        f6 == ReplaceAll(f5, PhPlaylist, safePlaylist)
        f7 == ReplaceAll(f6, PhCreator, safeCreator)
        f8 == ReplaceDisc(f7, a.discNumber)
        f9 == ReplaceTrack(f8, a.position)
        named == IF a.filenameFormat = FmtArtistTitle THEN safeArtist \o Dash \o safeTitle
                 ELSE IF a.filenameFormat = FmtTitle THEN safeTitle
                 ELSE safeTitle \o Dash \o safeArtist
        numbered == IF a.includeTrackNumber /\ a.position > 0
                    THEN Digits02(a.position) \o Dot \o named
                    ELSE named
        filename == IF Contains(a.filenameFormat, 123) THEN f9 ELSE numbered
    IN  filename \o FlacExt

\* the pieces the templates are made of
TemplatePieces ==
    {PhTrack, PhDisc, PhTitle, PhArtist, Dot, Dash, <<46>>, <<45>>, <<32>>}

RECURSIVE Concat(_)
\* the pieces put together
Concat(pieces) == IF pieces = <<>> THEN <<>> ELSE Head(pieces) \o Concat(Tail(pieces))

\* the calls of BuildExpectedFilename: a template of some pieces or a named
\* layout, a track "t:" by the artist "r", with or without numbers
BuildCalls ==
    {NewCall("BuildExpectedFilename",
             [trackName |-> <<116, 58>>, artistName |-> <<114>>,
              albumName |-> <<108>>, albumArtist |-> <<114>>,
              releaseDate |-> <<50, 48, 50, 52, 45, 48, 53>>,
              filenameFormat |-> f[1],
              playlistName |-> <<112>>, playlistOwner |-> <<111>>,
              includeTrackNumber |-> inc, position |-> pos, discNumber |-> disc,
              useAlbumTrackNumber |-> FALSE],
             f[2]) :
        f \in {<<Concat(ps), ps>> : ps \in Strings(TemplatePieces, MaxTemplatePieces)}
              \cup {<<n, <<>>>> : n \in {FmtArtistTitle, FmtTitle, FmtTitleArtist}},
        inc \in BOOLEAN, pos \in {0, 7}, disc \in {0, 2}}

\* BuildExpectedFilename(...) returns
CallBuildExpectedFilename ==
    /\ Returned("BuildExpectedFilename", 0)
    /\ call' = <<[call[1] EXCEPT !.res = <<BuildExpectedFilename(call[1].arg)>>]>>
    /\ UNCHANGED pageVars

\* one call of a function of filename.go
InitFilename ==
    /\ NoPage
    /\ \/ call \in SanitizeCalls
       \/ call \in FolderPathCalls
       \/ call \in BuildCalls

NextFilename ==
    \/ CallSanitizeFilename
    \/ CallSanitizeFilenameAgain
    \/ CallSanitizeFolderPath
    \/ CallBuildExpectedFilename

SpecFilename == InitFilename /\ [][NextFilename]_vars

\* ------------------------------------------------- claims on filename.go
\* C13: sanitizing the result of SanitizeFilename once more gives the same
\* result.
C13_Idempotent ==
    Returned("SanitizeFilename", 2) => call[1].res[2] = call[1].res[1]

\* C14: a result of SanitizeFilename is not empty and holds none of
\* / < > : " \ | ? * and no code point below 0x20 and not 0x7F; it is
\* "Unknown" for a name made only of those characters and spaces.
C14_SafeResult ==
    (call # <<>> /\ call[1].fn = "SanitizeFilename") =>
        /\ \A k \in 1..Len(call[1].res) :
              LET out == call[1].res[k]
              IN  /\ out # <<>>
                  /\ \A i \in 1..Len(out) :
                        /\ out[i] \notin {47, 60, 62, 58, 34, 92, 124, 63, 42}
                        /\ out[i] \notin 0..31
                        /\ out[i] # 127
        /\ (/\ call[1].res # <<>>
            /\ \A i \in 1..Len(call[1].arg) :
                  call[1].arg[i] \in {47, 60, 62, 58, 34, 92, 124, 63, 42, 127, 32}
                                      \cup 0..31) =>
              call[1].res[1] = <<85, 110, 107, 110, 111, 119, 110>>

\* C14 witness: the name "a<tab>:" has been sanitized to "a"
C14_Witness ==
    /\ Returned("SanitizeFilename", 1)
    /\ call[1].arg = <<97, 9, 58>>
    /\ call[1].res[1] = <<97>>

\* the segments of a UNC path after its prefix, for the separator of the
\* build
UncSegments(path, sep) == Split(ReplaceChars(From(path, 2), {47}, sep), sep)

\* the index of the share name: the second segment that is not empty
ShareIndex(segs) ==
    CHOOSE j \in 1..Len(segs) :
        /\ segs[j] # <<>>
        /\ Cardinality({i \in 1..(j - 1) : segs[i] # <<>>}) = 1

\* C15: for a path that begins with a double backslash and has a host and
\* a share segment, SanitizeFolderPath returns the prefix, the host and the
\* share as they are, and then the sanitized form of every later segment.
C15_UncPrefixKept ==
    (Returned("SanitizeFolderPath", 1) /\ HasPrefix(call[1].arg, <<92, 92>>)) =>
        LET sep == call[1].opt
            segs == UncSegments(call[1].arg, sep)
            nonEmpty == SelectSeq(segs, LAMBDA x : x # <<>>)
            out == call[1].res[1]
        IN  /\ HasPrefix(out, <<92, 92>>)
            /\ Len(nonEmpty) = 1 => HasPrefix(out, <<92, 92>> \o nonEmpty[1])
            /\ Len(nonEmpty) >= 2 =>
                  LET later == From(segs, ShareIndex(segs))
                  IN  out = <<92, 92>> \o
                            Join(<<nonEmpty[1], nonEmpty[2]>> \o
                                 [i \in 1..Len(later) |-> SanitizeFilename(later[i])],
                                 <<sep>>)

\* the placeholder p has no number to show
AbsentNumber(p, a) ==
    \/ p = PhTrack /\ a.position <= 0
    \/ p = PhDisc /\ a.discNumber <= 0

\* piece i of the template is a placeholder, or the template ends before it
PlaceholderOrEnd(ps, i) ==
    i > Len(ps) \/ ps[i] \in {PhTrack, PhDisc, PhTitle, PhArtist}

\* a template in which every placeholder without a number is followed by
\* another placeholder, by the end, or by one connector ". " or " - " that
\* is itself followed by a placeholder or the end
PlainTemplate(ps, a) ==
    \A i \in 1..Len(ps) :
        AbsentNumber(ps[i], a) =>
            \/ PlaceholderOrEnd(ps, i + 1)
            \/ ps[i + 1] \in {Dot, Dash} /\ PlaceholderOrEnd(ps, i + 2)

RECURSIVE ExpectedName(_, _)
\* the name the template stands for: a placeholder without a number is
\* left out together with the connector that follows it
ExpectedName(ps, a) ==
    IF ps = <<>> THEN <<>>
    ELSE IF AbsentNumber(Head(ps), a)
         THEN IF Len(ps) >= 2 /\ ps[2] \in {Dot, Dash}
              THEN ExpectedName(Tail(Tail(ps)), a)
              ELSE ExpectedName(Tail(ps), a)
         ELSE (IF Head(ps) = PhTrack THEN Digits02(a.position)
               ELSE IF Head(ps) = PhDisc THEN Digits(a.discNumber)
               ELSE IF Head(ps) = PhTitle THEN SanitizeFilename(a.trackName)
               ELSE IF Head(ps) = PhArtist THEN SanitizeFilename(a.artistName)
               ELSE Head(ps)) \o ExpectedName(Tail(ps), a)

\* C17: in template mode a {track} or {disc} placeholder without a number
\* is left out of the name together with the connector ". " or " - " that
\* follows it.
C17_AbsentNumberRemoved ==
    (/\ Returned("BuildExpectedFilename", 1)
     /\ Contains(call[1].arg.filenameFormat, 123)
     /\ PlainTemplate(call[1].opt, call[1].arg)) =>
        call[1].res[1] = ExpectedName(call[1].opt, call[1].arg) \o FlacExt

\* ================================================ backend/billboard.go
\* Texts are sequences of code points as above. The texts of the checked
\* calls are built from the pieces below; the only letters in them are
\* those of "amp", "lt", "gt" and "b", and no '#' occurs, so the named
\* character references that can be spelled are amp, lt and gt (each with
\* and without the closing ';') and no numeric reference occurs.

\* number of pieces of a text fragment
MaxTextPieces == 4

Amp == <<97, 109, 112>>
Lt == <<108, 116>>
Gt == <<103, 116>>

\* html.UnescapeString (line 293): the letters and digits of a reference name
IsAlnum(c) == c \in 48..57 \/ c \in 65..90 \/ c \in 97..122

\* html.UnescapeString (line 293): the length of the run of letters and
\* digits at the head of s
RECURSIVE AlnumRun(_)
AlnumRun(s) ==
    IF s # <<>> /\ IsAlnum(Head(s)) THEN 1 + AlnumRun(Tail(s)) ELSE 0

\* html.UnescapeString (line 293): the table of named references, as far as
\* the names can occur; <<>> stands for no entry
Entity(name) ==
    IF name \in {Amp, Amp \o <<59>>} THEN <<38>>
    ELSE IF name \in {Lt, Lt \o <<59>>} THEN <<60>>
    ELSE IF name \in {Gt, Gt \o <<59>>} THEN <<62>>
    ELSE <<>>

\* html.UnescapeString (line 293): the longest name without ';' in the table
LongestEntityWithoutSemicolon == 6

\* html.UnescapeString (line 293): the reference at the head of s, which
\* begins with '&': the text it is replaced by and the number of characters
\* it takes from s. The name is the run of letters and digits with the ';'
\* that follows it; a name that is not in the table is searched for its
\* longest prefix of 2 to 6 characters that is; otherwise the characters
\* are copied.
UnescapeEntity(s) ==
    LET n == AlnumRun(Tail(s))
        i == IF Len(s) >= n + 2 /\ s[n + 2] = 59 THEN n + 2 ELSE n + 1
        entityName == SubSeq(s, 2, i)
        maxLen == IF Len(entityName) - 1 > LongestEntityWithoutSemicolon
                  THEN LongestEntityWithoutSemicolon
                  ELSE Len(entityName) - 1
        found == {j \in 2..maxLen : Entity(SubSeq(entityName, 1, j)) # <<>>}
        j == CHOOSE x \in found : \A y \in found : y <= x
    IN  IF entityName = <<>> THEN [out |-> <<38>>, used |-> 1]
        ELSE IF Entity(entityName) # <<>>
        THEN [out |-> Entity(entityName), used |-> i]
        ELSE IF found # {}
        THEN [out |-> Entity(SubSeq(entityName, 1, j)), used |-> j + 1]
        ELSE [out |-> SubSeq(s, 1, i), used |-> i]

\* line 293: html.UnescapeString
RECURSIVE UnescapeString(_)
UnescapeString(s) ==
    IF s = <<>> THEN <<>>
    ELSE IF Head(s) # 38 THEN <<Head(s)>> \o UnescapeString(Tail(s))
    ELSE LET e == UnescapeEntity(s)
         IN  e.out \o UnescapeString(From(s, e.used))

\* lines 296-297: every match of <[^>]*> is removed, from the left: a '<'
\* with a '>' after it goes with everything up to the first such '>'
RECURSIVE RemoveTags(_)
RemoveTags(s) ==
    IF s = <<>> THEN <<>>
    ELSE IF Head(s) = 60 /\ Contains(s, 62)
    THEN LET close == CHOOSE i \in 1..Len(s) :
                          s[i] = 62 /\ \A k \in 1..(i - 1) : s[k] # 62
         IN  RemoveTags(From(s, close))
    ELSE <<Head(s)>> \o RemoveTags(Tail(s))

\* lines 291-304
cleanText(text) ==
    CollapseSpace(TrimSpace(RemoveTags(UnescapeString(text))))

\* the pieces of the text fragments: "&", "amp;", "amp", "lt;", "gt;", "<",
\* ">", "b" and " "
TextPieces ==
    {<<38>>, Amp \o <<59>>, Amp, Lt \o <<59>>, Gt \o <<59>>, <<60>>, <<62>>,
     <<98>>, <<32>>}

CleanCalls ==
    {NewCall("cleanText", Concat(ps), <<>>) :
        ps \in Strings(TextPieces, MaxTextPieces)}

\* cleanText(text) returns
CallCleanText ==
    /\ Returned("cleanText", 0)
    /\ call' = <<[call[1] EXCEPT !.res = <<cleanText(call[1].arg)>>]>>
    /\ UNCHANGED pageVars

\* the result is cleaned again
CallCleanTextAgain ==
    /\ Returned("cleanText", 1)
    /\ call' = <<[call[1] EXCEPT !.res = Append(@, cleanText(call[1].res[1]))]>>
    /\ UNCHANGED pageVars

\* ------------------------------------------------------ chart documents
\* A document is a sequence of tokens, each standing for the piece of
\* markup below; the text the parser is given is their concatenation. The
\* patterns of the parser are read on the tokens: each pattern can only
\* begin inside the one kind of token that holds its first characters, no
\* payload holds a closing tag, and the tokens follow one another without
\* white space. Offsets and lengths are those of the text.

Token(kind, p) == [kind |-> kind, p |-> p]

\* lines 94, 128, 135, 143, 152: the opening tags the patterns match:
\* <ul class="o-chart-results-list-row">, <li>, <span class="c-label">,
\* <h3 id="title-of-a-story"> and <a href="/artist/x">
OpenTag(kind) ==
    CASE kind = "ul" ->
            <<60, 117, 108, 32, 99, 108, 97, 115, 115, 61, 34, 111, 45, 99,
              104, 97, 114, 116, 45, 114, 101, 115, 117, 108, 116, 115, 45,
              108, 105, 115, 116, 45, 114, 111, 119, 34, 62>>
      [] kind = "li" ->
            <<60, 108, 105, 62>>
      [] kind = "span" ->
            <<60, 115, 112, 97, 110, 32, 99, 108, 97, 115, 115, 61, 34, 99,
              45, 108, 97, 98, 101, 108, 34, 62>>
      [] kind = "h3" ->
            <<60, 104, 51, 32, 105, 100, 61, 34, 116, 105, 116, 108, 101,
              45, 111, 102, 45, 97, 45, 115, 116, 111, 114, 121, 34, 62>>
      [] kind = "a" ->
            <<60, 97, 32, 104, 114, 101, 102, 61, 34, 47, 97, 114, 116,
              105, 115, 116, 47, 120, 34, 62>>
      [] OTHER -> <<>>

\* lines 94, 128, 135, 152: the closing tags </ul>, </span>, </h3>, </a>
CloseTag(kind) ==
    CASE kind = "/ul" ->
            <<60, 47, 117, 108, 62>>
      [] kind = "span" ->
            <<60, 47, 115, 112, 97, 110, 62>>
      [] kind = "h3" ->
            <<60, 47, 104, 51, 62>>
      [] kind = "a" ->
            <<60, 47, 97, 62>>
      [] OTHER -> <<>>

\* the text of a token: its tags around its payload (plain text has none)
Text(tok) == OpenTag(tok.kind) \o tok.p \o CloseTag(tok.kind)

\* line 72: the text of a document
RECURSIVE HtmlContent(_)
HtmlContent(doc) ==
    IF doc = <<>> THEN <<>> ELSE Text(Head(doc)) \o HtmlContent(Tail(doc))

\* the offset in the text at which token k of the document begins
RECURSIVE Offset(_, _)
Offset(doc, k) ==
    IF k <= 1 THEN 0 ELSE Offset(doc, k - 1) + Len(Text(doc[k - 1]))

\* the indices of the tokens of a kind
Indices(doc, kinds) == {k \in 1..Len(doc) : doc[k].kind \in kinds}

Lowest(S) == CHOOSE x \in S : \A y \in S : x <= y

Highest(S) == CHOOSE x \in S : \A y \in S : y <= x

\* the elements of a set of numbers in increasing order
RECURSIVE Ascending(_)
Ascending(S) ==
    IF S = {} THEN <<>> ELSE <<Lowest(S)>> \o Ascending(S \ {Lowest(S)})

\* lines 128, 135, 143, 152, 177, 210, 218: >\s*(.*?)\s*</ : the payload
\* without the white space around it
Capture(p) == Trim(p, RegexSpace)

\* lines 128, 243: \d+ and \d{1,3}
IsDigits(t) == t # <<>> /\ \A i \in 1..Len(t) : t[i] \in 48..57

\* lines 131, 248: strconv.Atoi of a run of digits
RECURSIVE Atoi(_)
Atoi(t) ==
    IF t = <<>> THEN 0
    ELSE 10 * Atoi(SubSeq(t, 1, Len(t) - 1)) + (t[Len(t)] - 48)

\* lines 94-95: the contents of the rows, from the left: a row goes from an
\* opening <ul ...o-chart-results-list-row...> to the first </ul> after it
RECURSIVE Rows(_)
Rows(doc) ==
    LET opens == {i \in Indices(doc, {"ul"}) :
                     \E j \in Indices(doc, {"/ul"}) : j > i}
        i == Lowest(opens)
        j == Lowest({x \in Indices(doc, {"/ul"}) : x > i})
    IN  IF opens = {} THEN <<>>
        ELSE <<SubSeq(doc, i + 1, j - 1)>> \o Rows(From(doc, j))

\* lines 128-132: the number in the first label that follows a <li>
RowRank(rowContent) ==
    LET found == {k \in Indices(rowContent, {"li"}) :
                     /\ k < Len(rowContent)
                     /\ rowContent[k + 1].kind = "span"
                     /\ IsDigits(Capture(rowContent[k + 1].p))}
    IN  IF found = {} THEN 0
        ELSE Atoi(Capture(rowContent[Lowest(found) + 1].p))

\* lines 135-139: the text of the first heading
RowTitle(rowContent) ==
    LET found == Indices(rowContent, {"h3"})
    IN  IF found = {} THEN <<>>
        ELSE cleanText(Capture(rowContent[Lowest(found)].p))

\* lines 143-147: the pattern begins in the first heading and ends with the
\* first label that follows the end of a heading
RowArtistLabel(rowContent) ==
    LET found == {k \in Indices(rowContent, {"h3"}) :
                     k < Len(rowContent) /\ rowContent[k + 1].kind = "span"}
    IN  IF found = {} THEN <<>>
        ELSE cleanText(Capture(rowContent[Lowest(found) + 1].p))

\* lines 150-157: the first artist link of the row
RowArtistLink(rowContent) ==
    LET found == Indices(rowContent, {"a"})
    IN  IF found = {} THEN <<>>
        ELSE cleanText(Capture(rowContent[Lowest(found)].p))

\* lines 124-170; the statistics and the new-entry mark of an entry (lines
\* 159-167) are left out
extractChartEntry(rowContent) ==
    [rank |-> RowRank(rowContent),
     title |-> RowTitle(rowContent),
     artist |-> IF RowArtistLabel(rowContent) # <<>>
                THEN RowArtistLabel(rowContent)
                ELSE RowArtistLink(rowContent)]

\* lines 203, 236: the windows after and before a heading
AfterWindow == 500
BeforeWindow == 300

\* line 231: the separator of the artist names
CommaSpace == <<44, 32>>

\* lines 197-233: the artist of the heading whose text first occurs as
\* token first: the label right after it, when it ends within the window,
\* else the names of the first three links that end within the window
DirectArtist(doc, first) ==
    LET endPos == IF Offset(doc, first + 1) + AfterWindow
                        > Len(HtmlContent(doc))
                  THEN Len(HtmlContent(doc))
                  ELSE Offset(doc, first + 1) + AfterWindow
        inside(k) == Offset(doc, k + 1) <= endPos
        label == IF /\ first < Len(doc)
                    /\ doc[first + 1].kind = "span"
                    /\ inside(first + 1)
                 THEN cleanText(Capture(doc[first + 1].p))
                 ELSE <<>>
        links == Ascending({k \in Indices(doc, {"a"}) : k > first /\ inside(k)})
        three == SubSeq(links, 1, IF Len(links) > 3 THEN 3 ELSE Len(links))
        names == [n \in 1..Len(three) |-> cleanText(Capture(doc[three[n]].p))]
        artists == SelectSeq(names, LAMBDA x : x # <<>>)
    IN  IF label # <<>> THEN label ELSE Join(artists, CommaSpace)

\* lines 236-253: the rank of a heading: the last >\s*(\d{1,3})\s*< that
\* begins within the window before the heading, when it is in 1..100, else
\* the number of the heading
DirectRank(doc, first, number) ==
    LET titlePos == Offset(doc, first)
        startPos == IF titlePos - BeforeWindow < 0 THEN 0
                    ELSE titlePos - BeforeWindow
        found == {k \in Indices(doc, {"span", "h3", "a"}) :
                     /\ k < first
                     /\ IsDigits(Capture(doc[k].p))
                     /\ Len(Capture(doc[k].p)) <= 3
                     /\ Offset(doc, k) + Len(OpenTag(doc[k].kind)) - 1
                            >= startPos}
        rank == Atoi(Capture(doc[Highest(found)].p))
    IN  IF found # {} /\ rank >= 1 /\ rank <= 100 THEN rank ELSE number

\* lines 181-258: the entry of heading number i (counted from 0), the
\* token at index k; <<>> when the heading gives no entry
DirectEntry(doc, i, k) ==
    LET title == cleanText(Capture(doc[k].p))
        first == Lowest({x \in Indices(doc, {"h3"}) : doc[x] = doc[k]})
        artist == DirectArtist(doc, first)
    IN  IF title = <<>> \/ artist = <<>> THEN <<>>
        ELSE <<[rank |-> DirectRank(doc, first, i + 1),
                title |-> title,
                artist |-> artist]>>

\* lines 173-261
parseDirectExtraction(doc) ==
    LET titleMatches == Ascending(Indices(doc, {"h3"}))
        each[i \in 0..Len(titleMatches)] ==
            IF i = 0 THEN <<>>
            ELSE each[i - 1] \o DirectEntry(doc, i - 1, titleMatches[i])
    IN  [entries |-> each[Len(titleMatches)], err |-> "nil", tier |-> 2]

\* mutant: an entry without a rank is valid
ValidEntry_NoRank(entry) == entry.title # <<>> /\ entry.artist # <<>>

\* line 110
ValidEntry(entry) ==
    entry.title # <<>> /\ entry.artist # <<>> /\ entry.rank > 0

\* mutant: the rows that gave no valid entry are the result
NoEntries_Never(entries) == FALSE

\* line 116
NoEntries(entries) == Len(entries) = 0

\* lines 87-121; tier tells which extraction gave the result
parseBillboardHTML(doc) ==
    LET rows == Rows(doc)
        each == [k \in 1..Len(rows) |-> extractChartEntry(rows[k])]
        entries == SelectSeq(each, ValidEntry)
    IN  IF Len(rows) = 0 THEN parseDirectExtraction(doc)
        ELSE IF NoEntries(entries) THEN parseDirectExtraction(doc)
        ELSE [entries |-> entries, err |-> "nil", tier |-> 1]

\* number of pieces of a document
MaxDocPieces == 3

\* a run of n characters of plain text
Filler(n) == Token("text", [i \in 1..n |-> 120])

\* a chart row with a rank label, a heading and an artist label
Row(rank, title, artist) ==
    <<Token("ul", <<>>), Token("li", <<>>), Token("span", rank),
      Token("h3", title), Token("span", artist), Token("/ul", <<>>)>>

\* a chart row whose artist is a link
LinkRow(rank, title, artist) ==
    <<Token("ul", <<>>), Token("li", <<>>), Token("span", rank),
      Token("h3", title), Token("a", artist), Token("/ul", <<>>)>>

\* the pieces of the documents: rows with the ranks "1", "2" and "0", the
\* titles "T", "U" and "", the artists "A" and "", and single tokens
DocPieces ==
    {Row(r, ta[1], ta[2]) :
        r \in {<<49>>, <<50>>, <<48>>},
        ta \in {<<<<84>>, <<65>>>>, <<<<85>>, <<65>>>>, <<<<84>>, <<>>>>,
                <<<<>>, <<65>>>>}}
    \cup {LinkRow(<<51>>, <<84>>, <<66>>)}
    \cup {<<Token("h3", t)>> : t \in {<<84>>, <<85>>, <<>>}}
    \cup {<<Token("span", t)>> : t \in {<<65>>, <<55>>, <<49, 53, 48>>}}
    \cup {<<Token("a", t)>> : t \in {<<66>>, <<>>}}
    \cup {<<Token(k, <<>>)>> : k \in {"ul", "/ul", "li"}}
    \cup {<<Filler(BeforeWindow)>>}

ParseCalls ==
    {NewCall("parseBillboardHTML", Concat(ps), <<>>) :
        ps \in Strings(DocPieces, MaxDocPieces)}

\* parseBillboardHTML(htmlContent) returns
CallParseBillboardHTML ==
    /\ Returned("parseBillboardHTML", 0)
    /\ call' = <<[call[1] EXCEPT !.res = <<parseBillboardHTML(call[1].arg)>>]>>
    /\ UNCHANGED pageVars

InitBillboard ==
    /\ NoPage
    /\ \/ call \in CleanCalls
       \/ call \in ParseCalls

NextBillboard ==
    \/ CallCleanText
    \/ CallCleanTextAgain
    \/ CallParseBillboardHTML

SpecBillboard == InitBillboard /\ [][NextBillboard]_vars

\* ------------------------------------------------ claims on billboard.go
\* C16: cleaning the result of cleanText once more gives the same result.
C16_Idempotent ==
    Returned("cleanText", 2) => call[1].res[2] = call[1].res[1]

\* C11: every entry that parseBillboardHTML returns, from the rows or from
\* the headings, has a title and an artist that are not empty and a rank of
\* at least 1.
C11_ValidEntries ==
    Returned("parseBillboardHTML", 1) =>
        \A n \in 1..Len(call[1].res[1].entries) :
            LET entry == call[1].res[1].entries[n]
            IN  /\ entry.title # <<>>
                /\ entry.artist # <<>>
                /\ entry.rank >= 1

\* C11 witness: of a row with rank 0, a row without artist and a row with
\* rank 2, title and artist, the last one alone is returned
C11_Witness ==
    /\ Returned("parseBillboardHTML", 1)
    /\ call[1].arg = Row(<<48>>, <<84>>, <<65>>) \o Row(<<49>>, <<84>>, <<>>)
                        \o Row(<<50>>, <<85>>, <<65>>)
    /\ call[1].res[1].entries = <<[rank |-> 2, title |-> <<85>>, artist |-> <<65>>]>>

\* the entries of the rows of a document that have a title, an artist and a
\* rank of at least 1, in the order of the rows
ValidRowEntries(doc) ==
    LET rows == Rows(doc)
        complete(k) == /\ extractChartEntry(rows[k]).title # <<>>
                       /\ extractChartEntry(rows[k]).artist # <<>>
                       /\ extractChartEntry(rows[k]).rank >= 1
        kept == Ascending({k \in 1..Len(rows) : complete(k)})
    IN  [n \in 1..Len(kept) |-> extractChartEntry(rows[kept[n]])]

\* C12: parseBillboardHTML returns the result of the extraction from the
\* headings iff the document has no row or no row gives a valid entry;
\* otherwise it returns the valid entries of the rows in the order of the
\* rows; and it never returns an error.
C12_FallbackRule ==
    Returned("parseBillboardHTML", 1) =>
        LET doc == call[1].arg
            res == call[1].res[1]
        IN  /\ res.err = "nil"
            /\ res.tier \in {1, 2}
            /\ res.tier = 2 <=> (Rows(doc) = <<>> \/ ValidRowEntries(doc) = <<>>)
            /\ res.tier = 1 => res.entries = ValidRowEntries(doc)
            /\ res.tier = 2 => res.entries = parseDirectExtraction(doc).entries

\* C12 witness: the only row of the document has rank 0, so the rows give
\* no valid entry and the result is the one of the headings
C12_Witness ==
    /\ Returned("parseBillboardHTML", 1)
    /\ call[1].arg = Row(<<48>>, <<84>>, <<65>>)
    /\ call[1].res[1] =
          [entries |-> <<[rank |-> 1, title |-> <<84>>, artist |-> <<65>>]>>,
           err |-> "nil", tier |-> 2]

\* C24: no two entries of a result of parseBillboardHTML have the same
\* rank.
C24_UniqueRanks ==
    Returned("parseBillboardHTML", 1) =>
        LET entries == call[1].res[1].entries
        IN  \A m, n \in 1..Len(entries) :
                m # n => entries[m].rank # entries[n].rank

\* C25: of two entries of a result of parseBillboardHTML the earlier one has
\* the lower rank.
C25_RankOrder ==
    Returned("parseBillboardHTML", 1) =>
        LET entries == call[1].res[1].entries
        IN  \A m, n \in 1..Len(entries) :
                m < n => entries[m].rank < entries[n].rank

\* no heading of the document occurs twice
DistinctHeadings(doc) ==
    \A j, k \in Indices(doc, {"h3"}) : j # k => doc[j] # doc[k]

\* the rank of the heading at token k, the number-th heading: the last
\* number of 1 to 3 digits with a value in 1..100 that begins in the 300
\* characters before the heading, else the number of the heading
LastPlausibleRank(doc, k, number) ==
    LET titlePos == Offset(doc, k)
        found == {j \in Indices(doc, {"span", "h3", "a"}) :
                     /\ j < k
                     /\ IsDigits(Capture(doc[j].p))
                     /\ Len(Capture(doc[j].p)) <= 3
                     /\ Atoi(Capture(doc[j].p)) \in 1..100
                     /\ Offset(doc, j) + Len(OpenTag(doc[j].kind)) - 1
                            >= titlePos - 300}
    IN  IF found = {} THEN number ELSE Atoi(Capture(doc[Highest(found)].p))

\* the headings of a document that give an entry when each is read at its
\* own place, in order
OwnHeadings(doc) ==
    LET titleMatches == Ascending(Indices(doc, {"h3"}))
    IN  SelectSeq([n \in 1..Len(titleMatches) |-> <<n, titleMatches[n]>>],
                  LAMBDA h : /\ cleanText(Capture(doc[h[2]].p)) # <<>>
                             /\ DirectArtist(doc, h[2]) # <<>>)

\* C26: in a result of the extraction from the headings, of a document
\* whose headings differ from one another, the rank of each entry is the
\* last number with a value in 1..100 in the 300 characters before its
\* heading, and the number of the heading when there is none.
C26_LastPlausibleRank ==
    (/\ Returned("parseBillboardHTML", 1)
     /\ call[1].res[1].tier = 2
     /\ DistinctHeadings(call[1].arg)) =>
        LET doc == call[1].arg
            entries == call[1].res[1].entries
            own == OwnHeadings(doc)
        IN  /\ Len(entries) = Len(own)
            /\ \A n \in 1..Len(own) :
                  entries[n].rank = LastPlausibleRank(doc, own[n][2], own[n][1])

\* C27: in a result of the extraction from the headings, every heading that
\* has a title and, in the 500 characters after itself, an artist gives one
\* entry, with that artist and with the rank read in the 300 characters
\* before itself, and no other heading gives an entry.
C27_OwnContext ==
    (Returned("parseBillboardHTML", 1) /\ call[1].res[1].tier = 2) =>
        LET doc == call[1].arg
            entries == call[1].res[1].entries
            own == OwnHeadings(doc)
        IN  /\ Len(entries) = Len(own)
            /\ \A n \in 1..Len(own) :
                  /\ entries[n].title = cleanText(Capture(doc[own[n][2]].p))
                  /\ entries[n].artist = DirectArtist(doc, own[n][2])
                  /\ entries[n].rank = DirectRank(doc, own[n][2], own[n][1])

\* C28: for a path that does not begin with a double backslash,
\* SanitizeFolderPath returns the first segment as it is when it is a drive
\* letter with its colon or empty, and after it (or from the first segment
\* on, otherwise) the sanitized form of every segment that is not empty, and
\* nothing for the empty ones.
C28_NoEmptySegments ==
    (Returned("SanitizeFolderPath", 1) /\ ~HasPrefix(call[1].arg, <<92, 92>>)) =>
        LET sep == call[1].opt
            segs == Split(ReplaceChars(call[1].arg, {47}, sep), sep)
            verbatim == \/ segs[1] = <<>>
                        \/ Len(segs[1]) = 2 /\ segs[1][2] = 58
            others == SelectSeq(IF verbatim THEN Tail(segs) ELSE segs,
                                LAMBDA x : x # <<>>)
            sanitized == [i \in 1..Len(others) |-> SanitizeFilename(others[i])]
        IN  call[1].res[1] =
                Join((IF verbatim THEN <<segs[1]>> ELSE <<>>) \o sanitized, <<sep>>)

====
